---- MODULE Spec2Model ----
(***************************************************************************)
(* A model of copyq_chat.py: the three fallback chains (screenshot         *)
(* capture, text capture, image upload), capture_context, the chat relay   *)
(* OpenRouterAPI.chat_completion, and the Flask endpoint WebChatServer     *)
(* with its exit-triggered self-termination.                               *)
(*                                                                         *)
(* Python strings are sequences of one-character strings.  Python values   *)
(* are tagged records [t, v] so that str, list, bool, None and a missing   *)
(* dictionary key stay distinct ("" is not [] and not None).               *)
(***************************************************************************)
EXTENDS Integers, Sequences, FiniteSets, TLC

VARIABLES
    pc,               \* position of the main flow: which chain runs, serving, terminated
    idx,              \* 1-based index of the next strategy of the running chain
    calls,            \* log of strategy invocations: [chain, name, env, raised, ret]
    screenshot_path,  \* capture_context local (Missing until assigned)
    selected_text,    \* capture_context local (Missing until assigned)
    image_url,        \* capture_context local (Missing until assigned)
    snapshot,         \* the dictionary capture_context returned (Missing before)
    model,            \* Config.model / OpenRouterAPI.model
    context_data,     \* WebChatServer.context_data
    session_file,     \* the session's JSON file (NotFound or the saved record)
    merged,           \* per key, the value posted last to /api/context (Missing if none)
    last,             \* the request served last and what it did
    threads,          \* how many shutdown_server threads sleep, and how many are about to kill
    sigterm,          \* a SIGTERM is pending for the process
    exit_kind,        \* how the process ended: "none", "sys.exit", "os._exit"
    handlers,         \* the request handler threads that run side by side, one per slot
    writers           \* the slots whose handlers have updated context_data, in that order

capture_vars == <<pc, idx, calls, screenshot_path, selected_text, image_url, snapshot>>
server_vars == <<model, context_data, session_file, merged, last, threads, sigterm, exit_kind>>
thread_vars == <<handlers, writers>>
vars == <<pc, idx, calls, screenshot_path, selected_text, image_url, snapshot,
          model, context_data, session_file, merged, last, threads, sigterm, exit_kind,
          handlers, writers>>

(***************************************************************************)
(* Python values                                                           *)
(***************************************************************************)
PyStr(s) == [t |-> "str", v |-> s]
PyList(l) == [t |-> "list", v |-> l]
PyBool(b) == [t |-> "bool", v |-> b]
PyNone == [t |-> "none", v |-> <<>>]
Missing == [t |-> "missing", v |-> <<>>]

\* Python truthiness of a value (if x: ..., x or y)
Truthy(x) ==
    CASE x.t = "str" -> x.v # <<>>
      [] x.t = "list" -> x.v # <<>>
      [] x.t = "bool" -> x.v
      [] OTHER -> FALSE

\* isinstance(x, str)
IsStr(x) == x.t = "str"

\* x or y
PyOr(x, y) == IF Truthy(x) THEN x ELSE y

(***************************************************************************)
(* Python string operations on sequences of characters                     *)
(***************************************************************************)
UpperCase == <<"A","B","C","D","E","F","G","H","I","J","K","L","M",
               "N","O","P","Q","R","S","T","U","V","W","X","Y","Z">>
LowerCase == <<"a","b","c","d","e","f","g","h","i","j","k","l","m",
               "n","o","p","q","r","s","t","u","v","w","x","y","z">>
Whitespace == {" ", "\t", "\n", "\r", "\f"}

LowerChar(c) ==
    IF \E k \in 1..26 : UpperCase[k] = c
    THEN LowerCase[CHOOSE k \in 1..26 : UpperCase[k] = c]
    ELSE c

\* str.lower()
Lower(s) == [k \in 1..Len(s) |-> LowerChar(s[k])]

RECURSIVE LStrip(_)
LStrip(s) == IF s # <<>> /\ Head(s) \in Whitespace THEN LStrip(Tail(s)) ELSE s

RECURSIVE RStrip(_)
RStrip(s) ==
    IF s # <<>> /\ s[Len(s)] \in Whitespace THEN RStrip(SubSeq(s, 1, Len(s) - 1)) ELSE s

\* str.strip()
Strip(s) == RStrip(LStrip(s))

\* str.startswith(p)
StartsWith(s, p) == Len(s) >= Len(p) /\ SubSeq(s, 1, Len(p)) = p

\* sub in s
Contains(s, sub) ==
    \E k \in 1..(Len(s) - Len(sub) + 1) : SubSeq(s, k, k + Len(sub) - 1) = sub

\* s.replace(old, new, 1) for an old that is a prefix of s
ReplacePrefix(s, old, new) == new \o SubSeq(s, Len(old) + 1, Len(s))

S_https == <<"h","t","t","p","s",":","/","/">>
S_http == <<"h","t","t","p",":","/","/">>
S_null == <<"n","u","l","l">>
S_error == <<"e","r","r","o","r">>
S_failed == <<"f","a","i","l","e","d">>
S_invalid == <<"i","n","v","a","l","i","d">>
S_None == <<"N","o","n","e">>

(***************************************************************************)
(* What a function call gives its caller: a returned value or an exception *)
(***************************************************************************)
Ret(x) == [raised |-> FALSE, value |-> x]
Raise == [raised |-> TRUE, value |-> PyNone]

(***************************************************************************)
(* ScreenshotCapture: the four capture methods.  env is what the operating *)
(* system does when the method runs: the call raises, or it ends with a    *)
(* return code and the file exists afterwards or not.                      *)
(***************************************************************************)
Filepath == <<"/","s","h","o","t",".","p","n","g">>

capture_with_mss(env) ==
    IF env.raises THEN Ret(PyBool(FALSE)) ELSE Ret(PyBool(env.exists))

capture_with_gnome_screenshot(env) ==
    IF env.raises THEN Ret(PyBool(FALSE))
    ELSE Ret(PyBool(env.returncode = 0 /\ env.exists))

capture_with_scrot(env) ==
    IF env.raises THEN Ret(PyBool(FALSE))
    ELSE Ret(PyBool(env.returncode = 0 /\ env.exists))

capture_with_import(env) ==
    IF env.raises THEN Ret(PyBool(FALSE))
    ELSE Ret(PyBool(env.returncode = 0 /\ env.exists))

methods_swapped ==
    <<"_capture_with_gnome_screenshot", "_capture_with_mss",
      "_capture_with_scrot", "_capture_with_import">>

\* the list `methods` of capture_screenshot, in order of preference
methods ==
    <<"_capture_with_mss", "_capture_with_gnome_screenshot",
      "_capture_with_scrot", "_capture_with_import">>

CallMethod(name, env) ==
    CASE name = "_capture_with_mss" -> capture_with_mss(env)
      [] name = "_capture_with_gnome_screenshot" -> capture_with_gnome_screenshot(env)
      [] name = "_capture_with_scrot" -> capture_with_scrot(env)
      [] name = "_capture_with_import" -> capture_with_import(env)

MssEnvs ==
    { [raises |-> TRUE, returncode |-> 0, exists |-> FALSE],
      [raises |-> FALSE, returncode |-> 0, exists |-> FALSE],
      [raises |-> FALSE, returncode |-> 0, exists |-> TRUE] }

SubprocessEnvs ==
    { [raises |-> TRUE, returncode |-> 1, exists |-> FALSE],
      [raises |-> FALSE, returncode |-> 1, exists |-> FALSE],
      [raises |-> FALSE, returncode |-> 0, exists |-> FALSE],
      [raises |-> FALSE, returncode |-> 0, exists |-> TRUE] }

MethodEnvs(name) == IF name = "_capture_with_mss" THEN MssEnvs ELSE SubprocessEnvs

(***************************************************************************)
(* TextCapture: primary selection through xclip, then xsel, then the       *)
(* clipboard through pyperclip.                                            *)
(***************************************************************************)
\* first try block of get_selected_text
xclip_primary(env) ==
    IF env.raises THEN Ret(PyNone)
    ELSE IF env.returncode = 0 /\ Strip(env.stdout) # <<>>
         THEN Ret(PyStr(Strip(env.stdout)))
         ELSE Ret(PyNone)

\* second try block of get_selected_text
xsel_primary(env) ==
    IF env.raises THEN Ret(PyNone)
    ELSE IF env.returncode = 0 /\ Strip(env.stdout) # <<>>
         THEN Ret(PyStr(Strip(env.stdout)))
         ELSE Ret(PyNone)

get_clipboard_text_raising(env) ==
    IF env.raises THEN Raise ELSE Ret(PyStr(env.stdout))

get_clipboard_text(env) ==
    IF env.raises THEN Ret(PyNone) ELSE Ret(PyStr(env.stdout))

\* the order in which get_text_context consults its sources
text_sources == <<"xclip", "xsel", "pyperclip">>

CallTextSource(name, env) ==
    CASE name = "xclip" -> xclip_primary(env)
      [] name = "xsel" -> xsel_primary(env)
      [] name = "pyperclip" -> get_clipboard_text(env)

XclipEnvs ==
    { [raises |-> TRUE, returncode |-> 1, stdout |-> <<>>],
      [raises |-> FALSE, returncode |-> 1, stdout |-> <<"e">>],
      [raises |-> FALSE, returncode |-> 0, stdout |-> <<>>],
      [raises |-> FALSE, returncode |-> 0, stdout |-> <<" ", "\n">>],
      [raises |-> FALSE, returncode |-> 0, stdout |-> <<"p", "\n">>] }

XselEnvs ==
    { [raises |-> TRUE, returncode |-> 1, stdout |-> <<>>],
      [raises |-> FALSE, returncode |-> 1, stdout |-> <<>>],
      [raises |-> FALSE, returncode |-> 0, stdout |-> <<"\t">>],
      [raises |-> FALSE, returncode |-> 0, stdout |-> <<" ", "s">>] }

PyperclipEnvs ==
    { [raises |-> TRUE, returncode |-> 0, stdout |-> <<>>],
      [raises |-> FALSE, returncode |-> 0, stdout |-> <<>>],
      [raises |-> FALSE, returncode |-> 0, stdout |-> <<" ">>],
      [raises |-> FALSE, returncode |-> 0, stdout |-> <<"c">>] }

TextEnvs(name) ==
    CASE name = "xclip" -> XclipEnvs
      [] name = "xsel" -> XselEnvs
      [] name = "pyperclip" -> PyperclipEnvs

(***************************************************************************)
(* ImageUploader: the three hosting services.                              *)
(***************************************************************************)
upload_to_0x0(env) ==
    IF env.raises THEN Ret(PyNone)
    ELSE IF env.returncode = 0
            /\ Strip(env.stdout) # <<>>
            /\ StartsWith(Strip(env.stdout), S_https)
            /\ ~ \E word \in {S_error, S_failed, S_invalid} :
                    Contains(Lower(Strip(env.stdout)), word)
         THEN Ret(PyStr(Strip(env.stdout)))
         ELSE Ret(PyNone)

upload_to_fileio(env) ==
    IF env.raises THEN Ret(PyNone)
    ELSE IF env.status_code = 200 /\ Truthy(env.link) /\ env.link # PyStr(S_null)
         THEN Ret(env.link)
         ELSE Ret(PyNone)

upload_to_tmpfiles(env) ==
    IF env.raises THEN Ret(PyNone)
    ELSE IF env.status_code = 200 /\ Truthy(env.link) /\ env.link # PyStr(S_null)
         THEN IF StartsWith(env.link.v, S_http)
              THEN Ret(PyStr(ReplacePrefix(env.link.v, S_http, S_https)))
              ELSE Ret(env.link)
         ELSE Ret(PyNone)

\* the list `services` of upload_image, in order
services == <<"_upload_to_0x0", "_upload_to_fileio", "_upload_to_tmpfiles">>

CallService(name, env) ==
    CASE name = "_upload_to_0x0" -> upload_to_0x0(env)
      [] name = "_upload_to_fileio" -> upload_to_fileio(env)
      [] name = "_upload_to_tmpfiles" -> upload_to_tmpfiles(env)

Url0x0 == S_https \o <<"0">>
UrlFileio == S_https \o <<"f">>
UrlTmpfiles == S_https \o <<"t">>

CurlEnvs ==
    { [raises |-> TRUE, returncode |-> 1, stdout |-> <<>>],
      [raises |-> FALSE, returncode |-> 1, stdout |-> <<>>],
      [raises |-> FALSE, returncode |-> 0, stdout |-> <<>>],
      [raises |-> FALSE, returncode |-> 0, stdout |-> S_error],
      [raises |-> FALSE, returncode |-> 0, stdout |-> S_https \o <<"E","r","r","o","r">>],
      [raises |-> FALSE, returncode |-> 0, stdout |-> Url0x0 \o <<"\n">>] }

FileioEnvs ==
    { [raises |-> TRUE, status_code |-> 0, link |-> PyNone],
      [raises |-> FALSE, status_code |-> 500, link |-> PyNone],
      [raises |-> FALSE, status_code |-> 200, link |-> PyNone],
      [raises |-> FALSE, status_code |-> 200, link |-> PyStr(S_null)],
      [raises |-> FALSE, status_code |-> 200, link |-> PyStr(UrlFileio)] }

TmpfilesEnvs ==
    { [raises |-> TRUE, status_code |-> 0, link |-> PyNone],
      [raises |-> FALSE, status_code |-> 500, link |-> PyNone],
      [raises |-> FALSE, status_code |-> 200, link |-> PyNone],
      [raises |-> FALSE, status_code |-> 200, link |-> PyStr(S_null)],
      [raises |-> FALSE, status_code |-> 200, link |-> PyStr(S_http \o <<"t">>)],
      [raises |-> FALSE, status_code |-> 200, link |-> PyStr(S_https \o <<"T">>)] }

ServiceEnvs(name) ==
    CASE name = "_upload_to_0x0" -> CurlEnvs
      [] name = "_upload_to_fileio" -> FileioEnvs
      [] name = "_upload_to_tmpfiles" -> TmpfilesEnvs

(***************************************************************************)
(* Dictionaries (the context snapshot) are functions over Keys; a key that *)
(* is not in the dictionary maps to Missing.                               *)
(***************************************************************************)
Keys == {"selected_text", "image_url", "screenshot_path", "timestamp"}
EmptyDict == [k \in Keys |-> Missing]

\* d.get(k, default)
Get(d, k, default) == IF d[k] = Missing THEN default ELSE d[k]

\* time.time(), kept abstract
PyTime == [t |-> "float", v |-> <<"t">>]

DefaultModel == "openrouter/sonoma-sky-alpha"

(***************************************************************************)
(* Texts of the program and of the sample requests                         *)
(***************************************************************************)
T_bye ==
    <<"b","y","e">>
T_exit ==
    <<"e","x","i","t">>
T_close ==
    <<"c","l","o","s","e">>
T_quit ==
    <<"q","u","i","t">>

\* the text put in front of the URL at line 333, and the one behind it
NotePrefix ==
    <<"\n","\n","[","S","c","r","e","e","n","s","h","o","t"," ","a","v","a",
      "i","l","a","b","l","e"," ","a","t",":"," ">>
NoteSuffix ==
    <<"]">>

\* Texts the program only passes on are kept as one segment each: the
\* farewell of line 424 (it starts with the waving-hand emoji) ...
T_farewell ==
    <<"<U+1F44B> Goodbye! Chat session ended.">>
E_no_response ==
    <<"No response from API">>

\* ... and str(e) of the errors the handlers can catch
E_none_get ==
    <<"'NoneType' object has no attribute 'get'">>
E_none_lower ==
    <<"'NoneType' object has no attribute 'lower'">>
E_list_lower ==
    <<"'list' object has no attribute 'lower'">>
E_none_iter ==
    <<"'NoneType' object is not iterable">>
E_int_iter ==
    <<"'int' object is not iterable">>
E_write ==
    <<"[Errno 28] No space left on device">>

\* sample texts of requests and replies
T_hi ==
    <<"h","i">>
T_intro ==
    <<"I"," ","h","a","v","e"," ","s","e","l","e","c","t","e","d">>
T_quit_padded ==
    <<" ","Q","u","i","T","\n">>
T_quits ==
    <<"q","u","i","t","s">>
T_reply ==
    <<"o","k">>
UrlPosted ==
    <<"h","t","t","p","s",":","/","/","n">>

(***************************************************************************)
(* OpenRouterAPI.chat_completion                                           *)
(***************************************************************************)
multimodal_models ==
    { "anthropic/claude-3.5-sonnet", "anthropic/claude-3.5-haiku",
      "anthropic/claude-3-haiku", "anthropic/claude-3-opus",
      "openai/gpt-4o", "openai/gpt-4o-mini", "openai/chatgpt-4o-latest",
      "meta-llama/llama-3.2-90b-vision-instruct",
      "meta-llama/llama-3.2-11b-vision-instruct",
      "x-ai/grok-2-vision-1212", "openrouter/sonoma-sky-alpha" }

\* the models a run is configured with: one on the list, one not on it
TextOnlyModel == "deepseek/deepseek-chat"
Models == {DefaultModel, TextOnlyModel}

\* a message dictionary; content is Missing when the key is absent
Msg(role, content) == [role |-> role, content |-> content]

TextPart(s) == [type |-> "text", text |-> s]
ImagePart(u) == [type |-> "image_url", image_url |-> [url |-> u]]

\* first_message.get('content')
ContentOf(m) == Get(m, "content", PyNone)

supports_images_always(m) == TRUE

supports_images_never(m) == FALSE

\* self.model in multimodal_models
supports_images(m) == m \in multimodal_models

\* lines 321-334: the messages as they go out, or the IndexError of messages[0]
PrepareMessages(messages, url, m) ==
    IF Truthy(url) /\ messages # <<>> /\ supports_images(m)
    THEN IF IsStr(ContentOf(messages[1]))
         THEN Ret([messages EXCEPT ![1].content =
                      PyList(<<TextPart(messages[1].content.v), ImagePart(url.v)>>)])
         ELSE Ret(messages)
    ELSE IF Truthy(url)
         THEN IF messages = <<>>
              THEN Raise
              ELSE IF IsStr(ContentOf(messages[1]))
                   THEN Ret([messages EXCEPT ![1].content =
                                PyStr(messages[1].content.v \o NotePrefix \o url.v \o NoteSuffix)])
                   ELSE Ret(messages)
         ELSE Ret(messages)

\* lines 344-359: what chat_completion makes of the remote end's answer
ParseResponse(env) ==
    IF env.raises THEN PyNone
    ELSE IF env.status_code # 200 THEN PyNone
    ELSE IF ~env.json_ok THEN PyNone
    ELSE IF env.has_choices /\ Len(env.choices) > 0
         THEN IF env.choices[1].well_formed THEN env.choices[1].content ELSE PyNone
         ELSE PyNone

NotSent == [model |-> "", messages |-> <<>>, stream |-> FALSE]

\* chat_completion: whether a request went out, the request, and the value returned
chat_completion(messages, url, m, env) ==
    LET prep == PrepareMessages(messages, url, m) IN
    IF prep.raised
    THEN [sent |-> FALSE, request |-> NotSent, result |-> PyNone]
    ELSE [sent |-> TRUE,
          request |-> [model |-> m, messages |-> prep.value, stream |-> FALSE],
          result |-> ParseResponse(env)]

Choice(content) == [well_formed |-> TRUE, content |-> content]
BadChoice == [well_formed |-> FALSE, content |-> PyNone]

Answer(raises, status, json_ok, has_choices, choices) ==
    [raises |-> raises, status_code |-> status, json_ok |-> json_ok,
     has_choices |-> has_choices, choices |-> choices]

\* what the remote completion endpoint can do with one request
RemoteEnvs ==
    { Answer(TRUE, 0, FALSE, FALSE, <<>>),
      Answer(FALSE, 500, TRUE, FALSE, <<>>),
      Answer(FALSE, 200, FALSE, FALSE, <<>>),
      Answer(FALSE, 200, TRUE, FALSE, <<>>),
      Answer(FALSE, 200, TRUE, TRUE, <<>>),
      Answer(FALSE, 200, TRUE, TRUE, <<BadChoice>>),
      Answer(FALSE, 200, TRUE, TRUE, <<Choice(PyNone)>>),
      Answer(FALSE, 200, TRUE, TRUE, <<Choice(PyStr(<<>>))>>),
      Answer(FALSE, 200, TRUE, TRUE, <<Choice(PyStr(T_reply)), Choice(PyStr(T_hi))>>) }

\* the answers tried on requests that come through the endpoint
ServerRemoteEnvs ==
    { Answer(TRUE, 0, FALSE, FALSE, <<>>),
      Answer(FALSE, 500, TRUE, FALSE, <<>>),
      Answer(FALSE, 200, FALSE, FALSE, <<>>),
      Answer(FALSE, 200, TRUE, TRUE, <<Choice(PyStr(<<>>))>>),
      Answer(FALSE, 200, TRUE, TRUE, <<Choice(PyStr(T_reply)), Choice(PyStr(T_hi))>>) }

NoAnswer == Answer(FALSE, 0, FALSE, FALSE, <<>>)

(***************************************************************************)
(* ChatHistory and the three routes of WebChatServer, as functions of the  *)
(* request and of the server's state                                       *)
(***************************************************************************)
\* session_data of the context route
SessionData(ctx) == [timestamp |-> PyTime, context |-> ctx, messages |-> <<>>]

\* json.dump and json.load of a session record: a str is written as a JSON
\* string, None as null, a float as a number; a key the dictionary lacks is
\* not written
json_encode(x) ==
    CASE x.t = "str" -> [j |-> "string", v |-> x.v]
      [] x.t = "none" -> [j |-> "null", v |-> <<>>]
      [] x.t = "float" -> [j |-> "number", v |-> x.v]
      [] x.t = "missing" -> [j |-> "absent", v |-> <<>>]

json_decode(y) ==
    CASE y.j = "string" -> PyStr(y.v)
      [] y.j = "null" -> PyNone
      [] y.j = "number" -> [t |-> "float", v |-> y.v]
      [] y.j = "absent" -> Missing

json_dump(data) ==
    [timestamp |-> json_encode(data.timestamp),
     context |-> [k \in Keys |-> json_encode(data.context[k])],
     messages |-> data.messages]

json_load(text) ==
    [timestamp |-> json_decode(text.timestamp),
     context |-> [k \in Keys |-> json_decode(text.context[k])],
     messages |-> text.messages]

\* what a file holds that json.load cannot read
Unreadable == json_dump(SessionData(EmptyDict))

\* the session file: absent, or holding a record, or left truncated by a failed write
NotFound == [exists |-> FALSE, valid |-> FALSE, data |-> Unreadable]

\* what can happen to the write of save_session
SaveEnvs == {"ok", "open_fails", "write_fails"}

\* save_session: the file afterwards, and whether the call raised
save_session(file, data, env) ==
    CASE env = "ok" ->
             [raised |-> FALSE,
              file |-> [exists |-> TRUE, valid |-> TRUE, data |-> json_dump(data)]]
      [] env = "open_fails" ->
             [raised |-> TRUE, file |-> file]
      [] env = "write_fails" ->
             [raised |-> TRUE,
              file |-> [exists |-> TRUE, valid |-> FALSE, data |-> Unreadable]]

\* what load_session gives its caller
Loaded(raised, found, data) == [raised |-> raised, found |-> found, data |-> data]

\* load_session: None when the file does not exist, else what json.load
\* makes of the file, which raises on a file that is not a JSON text
load_session(file) ==
    IF ~file.exists THEN Loaded(FALSE, FALSE, SessionData(EmptyDict))
    ELSE IF file.valid THEN Loaded(FALSE, TRUE, json_load(file.data))
    ELSE Loaded(TRUE, FALSE, SessionData(EmptyDict))

\* the JSON bodies the routes answer with; an absent key is Missing
success_payload(text) ==
    [status |-> 200, success |-> PyBool(TRUE), response |-> text,
     error |-> Missing, exit |-> Missing]

failure_payload(err) ==
    [status |-> 200, success |-> PyBool(FALSE), response |-> Missing,
     error |-> PyStr(err), exit |-> Missing]

farewell_payload ==
    [status |-> 200, success |-> PyBool(TRUE), response |-> PyStr(T_farewell),
     error |-> Missing, exit |-> PyBool(TRUE)]

ok_payload ==
    [status |-> 200, success |-> PyBool(TRUE), response |-> Missing,
     error |-> Missing, exit |-> Missing]

html_payload ==
    [status |-> 200, success |-> Missing, response |-> Missing,
     error |-> Missing, exit |-> Missing]

NoResponse ==
    [status |-> 0, success |-> Missing, response |-> Missing,
     error |-> Missing, exit |-> Missing]

chat_payload_always_success(result) == success_payload(result)

\* lines 428-431
chat_payload(result) ==
    IF Truthy(result) THEN success_payload(result) ELSE failure_payload(E_no_response)

\* the exit commands of line 411
ExitPhrases == {T_bye, T_exit, T_close, T_quit}

\* str(e) of <value>.lower() on a value that is not a string
LowerError(x) == IF x.t = "list" THEN E_list_lower ELSE E_none_lower

\* what serving a chat request did: the answer; whether chat_completion was
\* called, with what, what it sent and returned; the threads started
Handled(response, relay_calls, relay_messages, relay_url, r, scheduled) ==
    [response |-> response, relay_calls |-> relay_calls,
     relay_messages |-> relay_messages, relay_url |-> relay_url,
     sent |-> r.sent, request |-> r.request, result |-> r.result,
     scheduled |-> scheduled]

NotCalled == [sent |-> FALSE, request |-> NotSent, result |-> PyNone]

NotForwarded(response, scheduled) ==
    Handled(response, 0, <<>>, PyNone, NotCalled, scheduled)

\* lines 426-431: the call of the relay and the answer made of its result
Forward(messages, url, r) ==
    Handled(chat_payload(r.result), 1, messages, url, r, 0)

\* the answer of the HTTP layer when a handler raises
raised_payload ==
    [status |-> 500, success |-> Missing, response |-> Missing,
     error |-> Missing, exit |-> Missing]

chat_route_unguarded(body, ctx, m, env) ==
    IF body.t = "none"
    THEN NotForwarded(raised_payload, 0)
    ELSE LET messages == Get(body, "messages", PyList(<<>>)).v
             content == Get(messages[Len(messages)], "content", PyStr(<<>>))
             url == Get(ctx, "image_url", PyNone)
         IN
         IF messages # <<>> /\ ~IsStr(content)
         THEN NotForwarded(raised_payload, 0)
         ELSE IF messages # <<>> /\ Strip(Lower(content.v)) \in ExitPhrases
              THEN NotForwarded(farewell_payload, 1)
              ELSE Forward(messages, url, chat_completion(messages, url, m, env))

\* the route /api/chat: the answer, the call of the relay, the threads started
chat_route(body, ctx, m, env) ==
    IF body.t = "none"
    THEN NotForwarded(failure_payload(E_none_get), 0)
    ELSE LET messages == Get(body, "messages", PyList(<<>>)).v
             content == Get(messages[Len(messages)], "content", PyStr(<<>>))
             url == Get(ctx, "image_url", PyNone)
         IN
         IF messages # <<>> /\ ~IsStr(content)
         THEN NotForwarded(failure_payload(LowerError(content)), 0)
         ELSE IF messages # <<>> /\ Strip(Lower(content.v)) \in ExitPhrases
              THEN NotForwarded(farewell_payload, 1)
              ELSE Forward(messages, url, chat_completion(messages, url, m, env))

dict_update_dropping(d, other) == d

\* dict.update(other)
dict_update(d, other) == [k \in Keys |-> IF other[k] # Missing THEN other[k] ELSE d[k]]

\* str(e) of dict.update(<value>) on a value that is not a mapping or a sequence of pairs
UpdateError(body) == IF body.t = "none" THEN E_none_iter ELSE E_int_iter

context_route_rollback(body, ctx, file, env) ==
    IF body.t # "dict"
    THEN [context |-> ctx, file |-> file, save |-> "not_called",
          response |-> failure_payload(UpdateError(body))]
    ELSE LET new == dict_update(ctx, body.d)
             saved == save_session(file, SessionData(new), env)
         IN
         [context |-> IF saved.raised THEN ctx ELSE new,
          file |-> saved.file, save |-> env,
          response |-> IF saved.raised THEN failure_payload(E_write) ELSE ok_payload]

\* the route /api/context: the snapshot and the file afterwards, whether
\* save_session was called and how its write went, and the answer
context_route(body, ctx, file, env) ==
    IF body.t # "dict"
    THEN [context |-> ctx, file |-> file, save |-> "not_called",
          response |-> failure_payload(UpdateError(body))]
    ELSE LET new == dict_update(ctx, body.d)
             saved == save_session(file, SessionData(new), env)
         IN
         [context |-> new, file |-> saved.file, save |-> env,
          response |-> IF saved.raised THEN failure_payload(E_write) ELSE ok_payload]

\* f"{x}" for the values a snapshot holds
Format(x) == CASE x.t = "str" -> x.v [] x.t = "none" -> S_None

generate_chat_html_stale(ctx) ==
    [box_selected_text |-> S_None, box_screenshot |-> S_None,
     js_selectedText |-> <<>>, js_screenshotUrl |-> <<>>]

\* generate_chat_html: the four places of the page that show the snapshot
generate_chat_html(ctx) ==
    LET text == Get(ctx, "selected_text", PyStr(<<>>))
        screenshot_url == Get(ctx, "image_url", PyStr(<<>>))
    IN
    [box_selected_text |-> Format(PyOr(text, PyStr(S_None))),
     box_screenshot |-> Format(PyOr(screenshot_url, PyStr(S_None))),
     js_selectedText |-> Format(text),
     js_screenshotUrl |-> Format(screenshot_url)]

NoPage ==
    [box_selected_text |-> <<>>, box_screenshot |-> <<>>,
     js_selectedText |-> <<>>, js_screenshotUrl |-> <<>>]

\* nothing served yet
NoRequest ==
    [route |-> "none", body |-> PyNone, response |-> NoResponse,
     relay_calls |-> 0, relay_messages |-> <<>>, relay_url |-> PyNone,
     sent |-> FALSE, request |-> NotSent, result |-> PyNone,
     remote |-> NoAnswer, scheduled |-> 0, page |-> NoPage, save |-> "not_called"]

NoThreads == [sleep |-> 0, kill |-> 0]

\* how many request handlers may run side by side
MaxHandlers == 2
Slots == 1..MaxHandlers

\* a slot without a request
Idle == [route |-> "idle", at |-> "idle", body |-> PyNone]

\* a handler of the given route, about to run the given line, with its request's body
Handler(route, at, body) == [route |-> route, at |-> at, body |-> body]
NoHandlers == [i \in Slots |-> Idle]

\* how many shutdown threads may be alive at once
MaxShutdownThreads == 2

(***************************************************************************)
(* Sample requests                                                         *)
(***************************************************************************)
User(s) == Msg("user", PyStr(s))
Structured == Msg("user", PyList(<<TextPart(T_hi)>>))

ChatBody(msgs) == [t |-> "dict", messages |-> PyList(msgs)]
NullBody == [t |-> "none", messages |-> Missing]

\* bodies posted to /api/chat
ChatBodies ==
    { NullBody,
      [t |-> "dict", messages |-> Missing],
      ChatBody(<<>>),
      ChatBody(<<User(T_intro), User(T_hi)>>),
      ChatBody(<<User(T_quits)>>),
      ChatBody(<<User(T_quit), Msg("assistant", PyStr(T_reply)), User(T_hi)>>),
      ChatBody(<<User(T_intro), Msg("user", Missing)>>),
      ChatBody(<<User(T_intro), Structured>>),
      ChatBody(<<User(T_intro), Msg("user", PyNone)>>),
      ChatBody(<<User(T_quit)>>),
      ChatBody(<<User(T_intro), User(T_quit_padded)>>),
      ChatBody(<<User(T_intro), User(T_bye)>>),
      ChatBody(<<User(T_exit)>>),
      ChatBody(<<User(T_close)>>) }

\* conversations and image URLs chat_completion is called with directly
RelayMessages ==
    { <<>>,
      <<User(T_hi)>>,
      <<User(T_intro), User(T_hi)>>,
      <<Structured, User(T_hi)>>,
      <<Msg("user", Missing), User(T_hi)>>,
      <<User(T_intro), Structured>> }

RelayUrls == {PyNone, PyStr(<<>>), PyStr(Url0x0)}
RelayModels == {DefaultModel, "openai/gpt-4o", TextOnlyModel}

Posted(text, url) ==
    [t |-> "dict",
     d |-> [k \in Keys |->
              CASE k = "selected_text" -> text
                [] k = "image_url" -> url
                [] OTHER -> Missing]]

\* bodies posted to /api/context
ContextBodies ==
    { [t |-> "none", d |-> EmptyDict],
      [t |-> "int", d |-> EmptyDict],
      Posted(Missing, Missing),
      Posted(PyStr(T_hi), PyStr(UrlPosted)),
      Posted(PyStr(<<>>), PyNone) }

Snapshot(text, url, path) ==
    [k \in Keys |->
       CASE k = "selected_text" -> text
         [] k = "image_url" -> url
         [] k = "screenshot_path" -> path
         [] k = "timestamp" -> PyTime]

\* snapshots capture_context can return: nothing captured, and everything captured
SampleSnapshots ==
    { Snapshot(PyStr(<<>>), PyNone, PyNone),
      Snapshot(PyStr(<<"p">>), PyStr(Url0x0), PyStr(Filepath)) }

(***************************************************************************)
(* CopyQChatApp.capture_context and the three chains it runs, one strategy *)
(* invocation per step.                                                    *)
(***************************************************************************)
Logged(chain, name, env, r) ==
    [chain |-> chain, name |-> name, env |-> env, raised |-> r.raised, ret |-> r.value]

upload_always(path) == TRUE

\* capture_context: `if screenshot_path:` guards the upload
upload_wanted(path) == Truthy(path)

\* one iteration of the loop of capture_screenshot
ScreenshotStep ==
    /\ pc = "capture_screenshot"
    /\ \E env \in MethodEnvs(methods[idx]) :
          LET r == CallMethod(methods[idx], env) IN
          /\ calls' = Append(calls, Logged("screenshot", methods[idx], env, r))
          /\ IF ~r.raised /\ Truthy(r.value)
             THEN /\ screenshot_path' = PyStr(Filepath)
                  /\ pc' = "get_text_context"
                  /\ idx' = 1
             ELSE IF idx < Len(methods)
                  THEN /\ idx' = idx + 1
                       /\ UNCHANGED <<pc, screenshot_path>>
                  ELSE /\ screenshot_path' = PyNone
                       /\ pc' = "get_text_context"
                       /\ idx' = 1
    /\ UNCHANGED <<selected_text, image_url, snapshot>>
    /\ UNCHANGED server_vars
    /\ UNCHANGED thread_vars

\* get_text_context: one source per step; after it capture_context decides on the upload
TextStep ==
    /\ pc = "get_text_context"
    /\ \E env \in TextEnvs(text_sources[idx]) :
          LET r == CallTextSource(text_sources[idx], env)
              returns == r.raised \/ idx = Len(text_sources) \/ Truthy(r.value)
          IN
          /\ calls' = Append(calls, Logged("text", text_sources[idx], env, r))
          /\ IF r.raised
             THEN /\ pc' = "crashed"
                  /\ UNCHANGED <<idx, selected_text, image_url>>
             ELSE IF returns
                  THEN /\ selected_text' = PyOr(r.value, PyStr(<<>>))
                       /\ idx' = 1
                       /\ IF upload_wanted(screenshot_path)
                          THEN pc' = "upload_image" /\ UNCHANGED image_url
                          ELSE pc' = "capture_return" /\ image_url' = PyNone
                  ELSE /\ idx' = idx + 1
                       /\ UNCHANGED <<pc, selected_text, image_url>>
    /\ UNCHANGED <<screenshot_path, snapshot>>
    /\ UNCHANGED server_vars
    /\ UNCHANGED thread_vars

\* one iteration of the loop of upload_image
UploadStep ==
    /\ pc = "upload_image"
    /\ \E env \in ServiceEnvs(services[idx]) :
          LET r == CallService(services[idx], env) IN
          /\ calls' = Append(calls, Logged("upload", services[idx], env, r))
          /\ IF ~r.raised /\ Truthy(r.value)
             THEN /\ image_url' = r.value
                  /\ pc' = "capture_return"
                  /\ idx' = 1
             ELSE IF idx < Len(services)
                  THEN /\ idx' = idx + 1
                       /\ UNCHANGED <<pc, image_url>>
                  ELSE /\ image_url' = PyNone
                       /\ pc' = "capture_return"
                       /\ idx' = 1
    /\ UNCHANGED <<screenshot_path, selected_text, snapshot>>
    /\ UNCHANGED server_vars
    /\ UNCHANGED thread_vars

\* the dictionary capture_context returns
CaptureReturn ==
    /\ pc = "capture_return"
    /\ snapshot' = [k \in Keys |->
                      CASE k = "selected_text" -> selected_text
                        [] k = "image_url" -> image_url
                        [] k = "screenshot_path" -> screenshot_path
                        [] k = "timestamp" -> PyTime]
    /\ pc' = "captured"
    /\ UNCHANGED <<idx, calls, screenshot_path, selected_text, image_url>>
    /\ UNCHANGED server_vars
    /\ UNCHANGED thread_vars

\* CopyQChatApp.run: the server is created and handed the snapshot, which
\* from here on is context_data itself; the locals of the capture are gone
StartServer ==
    /\ pc = "captured"
    /\ context_data' = snapshot
    /\ pc' = "serving"
    /\ idx' = 1
    /\ calls' = <<>>
    /\ screenshot_path' = Missing
    /\ selected_text' = Missing
    /\ image_url' = Missing
    /\ snapshot' = EmptyDict
    /\ UNCHANGED <<model, session_file, merged, last, threads, sigterm, exit_kind>>
    /\ UNCHANGED thread_vars

CaptureInit ==
    /\ pc = "capture_screenshot"
    /\ idx = 1
    /\ calls = <<>>
    /\ screenshot_path = Missing
    /\ selected_text = Missing
    /\ image_url = Missing
    /\ snapshot = EmptyDict
    /\ model = DefaultModel
    /\ context_data = EmptyDict
    /\ session_file = NotFound
    /\ merged = EmptyDict
    /\ last = NoRequest
    /\ threads = NoThreads
    /\ sigterm = FALSE
    /\ exit_kind = "none"
    /\ handlers = NoHandlers
    /\ writers = <<>>

CaptureNext ==
    \/ ScreenshotStep
    \/ TextStep
    \/ UploadStep
    \/ CaptureReturn
    \/ StartServer

\* the program from its start to the moment the server is up
CaptureSpec == CaptureInit /\ [][CaptureNext]_vars

(***************************************************************************)
(* The server: one action per request served, and the steps of the         *)
(* shutdown thread and of the signal handler                               *)
(***************************************************************************)
\* GET /
Index ==
    /\ pc = "serving"
    /\ last' = [NoRequest EXCEPT !.route = "index",
                                 !.response = html_payload,
                                 !.page = generate_chat_html(context_data)]
    /\ UNCHANGED capture_vars
    /\ UNCHANGED <<model, context_data, session_file, merged, threads, sigterm, exit_kind>>
    /\ UNCHANGED thread_vars

\* what the remote end can do with the request of this body: nothing when
\* the handler never gets to send one
RemoteEnvsFor(body, ctx, m) ==
    IF chat_route(body, ctx, m, NoAnswer).sent THEN ServerRemoteEnvs ELSE {NoAnswer}

\* the record of a served chat request
ChatServed(body, env, h) ==
    [route |-> "chat", body |-> body, response |-> h.response,
     relay_calls |-> h.relay_calls, relay_messages |-> h.relay_messages,
     relay_url |-> h.relay_url, sent |-> h.sent, request |-> h.request,
     result |-> h.result, remote |-> env, scheduled |-> h.scheduled,
     page |-> NoPage, save |-> "not_called"]

\* POST /api/chat
Chat ==
    /\ pc = "serving"
    /\ \E body \in ChatBodies :
          \E env \in RemoteEnvsFor(body, context_data, model) :
             \E h \in {chat_route(body, context_data, model, env)} :
                /\ h.scheduled > 0 => threads.sleep + threads.kill < MaxShutdownThreads
                /\ last' = ChatServed(body, env, h)
                /\ threads' = [threads EXCEPT !.sleep = @ + h.scheduled]
    /\ UNCHANGED capture_vars
    /\ UNCHANGED <<model, context_data, session_file, merged, sigterm, exit_kind>>
    /\ UNCHANGED thread_vars

\* POST /api/context
Context ==
    /\ pc = "serving"
    /\ \E body \in ContextBodies, env \in SaveEnvs :
          \E h \in {context_route(body, context_data, session_file, env)} :
          /\ context_data' = h.context
          /\ session_file' = h.file
          /\ merged' = IF body.t # "dict" THEN merged
                       ELSE [k \in Keys |->
                               IF body.d[k] # Missing THEN body.d[k] ELSE merged[k]]
          /\ last' = [NoRequest EXCEPT !.route = "context",
                                       !.body = body,
                                       !.response = h.response,
                                       !.save = h.save]
    /\ UNCHANGED capture_vars
    /\ UNCHANGED <<model, threads, sigterm, exit_kind>>
    /\ UNCHANGED thread_vars

\* shutdown_server: time.sleep(1) is over
ShutdownWake ==
    /\ pc = "serving"
    /\ threads.sleep > 0
    /\ threads' = [sleep |-> threads.sleep - 1, kill |-> threads.kill + 1]
    /\ UNCHANGED capture_vars
    /\ UNCHANGED <<model, context_data, session_file, merged, last, sigterm, exit_kind>>
    /\ UNCHANGED thread_vars

\* shutdown_server: os.kill(os.getpid(), SIGTERM), or os._exit(0) when that raises
ShutdownKill ==
    /\ pc = "serving"
    /\ threads.kill > 0
    /\ \E delivered \in BOOLEAN :
          IF delivered
          THEN /\ sigterm' = TRUE
               /\ threads' = [threads EXCEPT !.kill = @ - 1]
               /\ UNCHANGED <<pc, exit_kind>>
          ELSE /\ pc' = "terminated"
               /\ exit_kind' = "os._exit"
               /\ threads' = NoThreads
               /\ UNCHANGED sigterm
    /\ UNCHANGED <<idx, calls, screenshot_path, selected_text, image_url, snapshot>>
    /\ UNCHANGED <<model, context_data, session_file, merged, last>>
    /\ UNCHANGED thread_vars

SignalHandler_returns ==
    /\ pc = "serving"
    /\ sigterm
    /\ sigterm' = FALSE
    /\ UNCHANGED <<pc, exit_kind, threads>>
    /\ UNCHANGED <<idx, calls, screenshot_path, selected_text, image_url, snapshot>>
    /\ UNCHANGED <<model, context_data, session_file, merged, last>>
    /\ UNCHANGED thread_vars

\* signal_handler of run: sys.exit(0) ends app.run and the process
SignalHandler ==
    /\ pc = "serving"
    /\ sigterm
    /\ pc' = "terminated"
    /\ exit_kind' = "sys.exit"
    /\ sigterm' = FALSE
    /\ threads' = NoThreads
    /\ UNCHANGED <<idx, calls, screenshot_path, selected_text, image_url, snapshot>>
    /\ UNCHANGED <<model, context_data, session_file, merged, last>>
    /\ UNCHANGED thread_vars

\* the server is up with the snapshot of a finished capture
Init ==
    /\ pc = "serving"
    /\ idx = 1
    /\ calls = <<>>
    /\ screenshot_path = Missing
    /\ selected_text = Missing
    /\ image_url = Missing
    /\ snapshot = EmptyDict
    /\ model \in Models
    /\ context_data \in SampleSnapshots
    /\ session_file = NotFound
    /\ merged = EmptyDict
    /\ last = NoRequest
    /\ threads = NoThreads
    /\ sigterm = FALSE
    /\ exit_kind = "none"
    /\ handlers = NoHandlers
    /\ writers = <<>>

Next ==
    \/ Index
    \/ Chat
    \/ Context
    \/ ShutdownWake
    \/ ShutdownKill
    \/ SignalHandler

Spec == Init /\ [][Next]_vars

\* chat_completion called on its own, on any conversation, URL and answer
RelayCall ==
    /\ pc = "relay"
    /\ \E messages \in RelayMessages, url \in RelayUrls, env \in RemoteEnvs :
          \E r \in {chat_completion(messages, url, model, env)} :
             last' = ChatServed(ChatBody(messages), env,
                                Handled(NoResponse, 1, messages, url, r, 0))
    /\ UNCHANGED <<idx, calls, screenshot_path, selected_text, image_url, snapshot>>
    /\ UNCHANGED <<pc, model, context_data, session_file, merged, threads, sigterm, exit_kind>>
    /\ UNCHANGED thread_vars

RelayInit ==
    /\ pc = "relay"
    /\ idx = 1
    /\ calls = <<>>
    /\ screenshot_path = Missing
    /\ selected_text = Missing
    /\ image_url = Missing
    /\ snapshot = EmptyDict
    /\ model \in RelayModels
    /\ context_data = EmptyDict
    /\ session_file = NotFound
    /\ merged = EmptyDict
    /\ last = NoRequest
    /\ threads = NoThreads
    /\ sigterm = FALSE
    /\ exit_kind = "none"
    /\ handlers = NoHandlers
    /\ writers = <<>>

RelayNext == RelayCall

\* an OpenRouterAPI object and its callers
RelaySpec == RelayInit /\ [][RelayNext]_vars

\* the threading module runs a started thread, and a pending signal is handled
Fairness ==
    /\ WF_vars(ShutdownWake)
    /\ WF_vars(ShutdownKill)
    /\ WF_vars(SignalHandler)

FairSpec == Spec /\ Fairness

(***************************************************************************)
(* The server with its request handlers as threads: app.run serves every   *)
(* request in a thread of its own, so the handlers of /api/context run     *)
(* side by side, one line at a time.  The handlers of one round are        *)
(* forgotten together when all of them have answered.                      *)
(***************************************************************************)
\* bodies posted to /api/context side by side
ThreadedContextBodies ==
    { [t |-> "none", d |-> EmptyDict],
      Posted(PyStr(T_hi), PyStr(UrlPosted)),
      Posted(PyStr(T_reply), Missing),
      Posted(PyStr(<<>>), PyNone) }

\* context, line 439: a request has come in and its body is parsed
CtxReceive(i) ==
    /\ pc = "serving"
    /\ handlers[i].route = "idle"
    /\ \E body \in ThreadedContextBodies :
          handlers' = [handlers EXCEPT ![i] = Handler("context", "update", body)]
    /\ UNCHANGED capture_vars
    /\ UNCHANGED server_vars
    /\ UNCHANGED writers

\* context, line 440: self.context_data.update(data) in one piece, or the
\* exception that ends the handler with its answer
CtxUpdate(i) ==
    /\ pc = "serving"
    /\ handlers[i].route = "context"
    /\ handlers[i].at = "update"
    /\ \E body \in {handlers[i].body} :
          IF body.t # "dict"
          THEN /\ handlers' = [handlers EXCEPT ![i].at = "done"]
               /\ last' = [NoRequest EXCEPT !.route = "context",
                                            !.body = body,
                                            !.response = failure_payload(UpdateError(body))]
               /\ UNCHANGED <<context_data, merged, writers>>
          ELSE /\ context_data' = dict_update(context_data, body.d)
               /\ merged' = [k \in Keys |->
                               IF body.d[k] # Missing THEN body.d[k] ELSE merged[k]]
               /\ handlers' = [handlers EXCEPT ![i].at = "save"]
               /\ writers' = Append(writers, i)
               /\ UNCHANGED last
    /\ UNCHANGED capture_vars
    /\ UNCHANGED <<model, session_file, threads, sigterm, exit_kind>>

\* context, lines 443-453: the record is made of the dictionary as it is
\* now, written, and the request is answered
CtxSave(i) ==
    /\ pc = "serving"
    /\ handlers[i].route = "context"
    /\ handlers[i].at = "save"
    /\ \E env \in SaveEnvs :
          \E saved \in {save_session(session_file, SessionData(context_data), env)} :
             /\ session_file' = saved.file
             /\ last' = [NoRequest EXCEPT
                            !.route = "context",
                            !.body = handlers[i].body,
                            !.response = IF saved.raised THEN failure_payload(E_write)
                                         ELSE ok_payload,
                            !.save = env]
    /\ handlers' = [handlers EXCEPT ![i].at = "done"]
    /\ UNCHANGED capture_vars
    /\ UNCHANGED <<model, context_data, merged, threads, sigterm, exit_kind, writers>>

\* every handler of the round has answered
Quiet == \A i \in Slots : handlers[i].at \in {"idle", "done"}

\* the round is over: the threads of the handlers are gone
Finish ==
    /\ pc = "serving"
    /\ Quiet
    /\ handlers # NoHandlers
    /\ handlers' = NoHandlers
    /\ writers' = <<>>
    /\ UNCHANGED capture_vars
    /\ UNCHANGED server_vars

\* chat requests served alongside: one that is forwarded and answered, one
\* that has no body
ThreadedChatBodies == {ChatBody(<<User(T_intro), User(T_hi)>>), NullBody}

\* POST /api/chat, served in one piece: it reads the snapshot once, at line 426
ChatForward ==
    /\ pc = "serving"
    /\ \E body \in ThreadedChatBodies :
          \E env \in {Answer(FALSE, 200, TRUE, TRUE, <<Choice(PyStr(T_reply))>>)} :
             \E h \in {chat_route(body, context_data, model, env)} :
                /\ h.scheduled = 0
                /\ last' = ChatServed(body, IF h.sent THEN env ELSE NoAnswer, h)
    /\ UNCHANGED capture_vars
    /\ UNCHANGED <<model, context_data, session_file, merged, threads, sigterm, exit_kind>>
    /\ UNCHANGED thread_vars

\* the server is up with the snapshot of a capture that got everything
ThreadedInit ==
    /\ pc = "serving"
    /\ idx = 1
    /\ calls = <<>>
    /\ screenshot_path = Missing
    /\ selected_text = Missing
    /\ image_url = Missing
    /\ snapshot = EmptyDict
    /\ model = DefaultModel
    /\ context_data = Snapshot(PyStr(<<"p">>), PyStr(Url0x0), PyStr(Filepath))
    /\ session_file = NotFound
    /\ merged = EmptyDict
    /\ last = NoRequest
    /\ threads = NoThreads
    /\ sigterm = FALSE
    /\ exit_kind = "none"
    /\ handlers = NoHandlers
    /\ writers = <<>>

ThreadedNext ==
    \/ \E i \in Slots : CtxReceive(i)
    \/ \E i \in Slots : CtxUpdate(i)
    \/ \E i \in Slots : CtxSave(i)
    \/ Finish
    \/ ChatForward
    \/ Index

\* the server with context updates, chat and page requests running side by side
ThreadedSpec == ThreadedInit /\ [][ThreadedNext]_vars

(***************************************************************************)
(* The exit branch of the chat handler as a thread next to the shutdown    *)
(* thread it starts: line 423 starts the thread, line 424 returns the      *)
(* farewell.  time.sleep(1) of the shutdown thread is the step             *)
(* ShutdownWake; nothing in the code makes the thread wait for the         *)
(* handler, so the two run at whatever speeds the scheduler gives them.    *)
(***************************************************************************)
\* chat requests that end with an exit phrase
ExitBodies ==
    { ChatBody(<<User(T_quit)>>),
      ChatBody(<<User(T_intro), User(T_quit_padded)>>) }

\* chat, lines 405-423: the body is parsed, the exit phrase is found and the
\* shutdown thread is started
ExitReceive(i) ==
    /\ pc = "serving"
    /\ handlers[i].route = "idle"
    /\ \E body \in ExitBodies :
          \E h \in {chat_route(body, context_data, model, NoAnswer)} :
             /\ h.scheduled > 0
             /\ threads.sleep + threads.kill < MaxShutdownThreads
             /\ threads' = [threads EXCEPT !.sleep = @ + h.scheduled]
             /\ handlers' = [handlers EXCEPT ![i] = Handler("chat", "respond", body)]
    /\ UNCHANGED capture_vars
    /\ UNCHANGED <<model, context_data, session_file, merged, last, sigterm, exit_kind>>
    /\ UNCHANGED writers

\* chat, line 424: the farewell is returned and sent
ExitRespond(i) ==
    /\ pc = "serving"
    /\ handlers[i].route = "chat"
    /\ handlers[i].at = "respond"
    /\ \E h \in {chat_route(handlers[i].body, context_data, model, NoAnswer)} :
          last' = ChatServed(handlers[i].body, NoAnswer, h)
    /\ handlers' = [handlers EXCEPT ![i].at = "done"]
    /\ UNCHANGED capture_vars
    /\ UNCHANGED <<model, context_data, session_file, merged, threads, sigterm, exit_kind>>
    /\ UNCHANGED writers

ExitNext ==
    \/ \E i \in Slots : ExitReceive(i)
    \/ \E i \in Slots : ExitRespond(i)
    \/ Finish
    \/ ChatForward
    \/ Index
    \/ ShutdownWake
    \/ ShutdownKill
    \/ SignalHandler

\* the server with the exit requests and the shutdown threads running side by side
ExitSpec == ThreadedInit /\ [][ExitNext]_vars

(***************************************************************************)
(* Properties                                                              *)
(***************************************************************************)
Chains == {"screenshot", "text", "upload"}

\* the invocations a chain has made so far, in order
ChainCalls(c) == SelectSeq(calls, LAMBDA e : e.chain = c)

\* what the chain returned to capture_context (Missing while it has not returned)
ChainResult(c) ==
    CASE c = "screenshot" -> screenshot_path
      [] c = "text" -> selected_text
      [] c = "upload" -> image_url

\* an invocation succeeded: it returned a truthy value
Succeeded(e) == ~e.raised /\ Truthy(e.ret)

\* what a successful invocation hands back: the file it wrote, or the value it returned
Produced(c, e) == IF c = "screenshot" THEN PyStr(Filepath) ELSE e.ret

\* the order of strategies the specification fixes for every chain
FixedOrder(c) ==
    CASE c = "screenshot" ->
             <<"_capture_with_mss", "_capture_with_gnome_screenshot",
               "_capture_with_scrot", "_capture_with_import">>
      [] c = "text" -> <<"xclip", "xsel", "pyperclip">>
      [] c = "upload" -> <<"_upload_to_0x0", "_upload_to_fileio", "_upload_to_tmpfiles">>

\* what a chain returns when every strategy failed
Exhausted(c) == IF c = "text" THEN PyStr(<<>>) ELSE PyNone

\* C1: in each chain the strategies are invoked in the fixed order, each at
\* most once; a strategy that succeeds is the last one invoked, every one
\* before it failed, and its result is the chain's result.
C1_FirstSuccessWins ==
    \A c \in Chains :
        LET cs == ChainCalls(c) IN
        /\ Len(cs) <= Len(FixedOrder(c))
        /\ \A k \in 1..Len(cs) :
              /\ cs[k].name = FixedOrder(c)[k]
              /\ Succeeded(cs[k]) =>
                    /\ k = Len(cs)
                    /\ \A j \in 1..(k - 1) : ~Succeeded(cs[j])
                    /\ ChainResult(c) = Produced(c, cs[k])

\* C1 witness: capture is over; the screenshot came from the fourth method,
\* the text from the second source and the URL from the third service.
C1_Witness ==
    /\ pc = "captured"
    /\ Len(ChainCalls("screenshot")) = 4 /\ screenshot_path = PyStr(Filepath)
    /\ Len(ChainCalls("text")) = 2 /\ selected_text = PyStr(<<"s">>)
    /\ Len(ChainCalls("upload")) = 3 /\ image_url = PyStr(UrlTmpfiles)

\* C2: no chain raises to its caller; a chain whose strategies all failed or
\* threw returns None (the empty string for text capture); and once a chain
\* has returned, every strategy that threw or failed before the last
\* position was followed by the next strategy.
C2_ChainsNeverRaise ==
    /\ pc # "crashed"
    /\ \A c \in Chains :
          LET cs == ChainCalls(c) IN
          ChainResult(c) # Missing =>
              /\ (cs # <<>> /\ \A k \in 1..Len(cs) : ~Succeeded(cs[k]))
                    => ChainResult(c) = Exhausted(c)
              /\ \A k \in 1..Len(cs) :
                    (cs[k].env.raises \/ ~Succeeded(cs[k])) /\ k < Len(FixedOrder(c))
                        => k < Len(cs)

\* C2 witness: every text source and every upload service threw, and the
\* chains returned "" and None.
C2_Witness ==
    /\ pc = "captured"
    /\ Len(ChainCalls("text")) = 3
    /\ \A k \in 1..3 : ChainCalls("text")[k].env.raises
    /\ selected_text = PyStr(<<>>)
    /\ Len(ChainCalls("upload")) = 3
    /\ \A k \in 1..3 : ChainCalls("upload")[k].env.raises
    /\ image_url = PyNone
    /\ Len(ChainCalls("screenshot")) = 4
    /\ \A k \in 1..3 : ChainCalls("screenshot")[k].env.raises

ChainRank(c) == CASE c = "screenshot" -> 1 [] c = "text" -> 2 [] c = "upload" -> 3

\* the value of the successful invocation of chain c, or its exhausted value
Outcome(c) ==
    LET cs == ChainCalls(c) IN
    IF cs # <<>> /\ Succeeded(cs[Len(cs)]) THEN Produced(c, cs[Len(cs)]) ELSE Exhausted(c)

\* C10: capture_context runs the screenshot chain, then the text chain, then
\* the upload chain only when a screenshot file was produced; it never
\* fails; every field of the returned snapshot is the outcome of its own
\* chain alone; a present image URL implies a present screenshot path.
C10_CaptureContext ==
    /\ pc # "crashed"
    /\ \A a, b \in 1..Len(calls) :
          a < b => ChainRank(calls[a].chain) <= ChainRank(calls[b].chain)
    /\ ChainCalls("text") # <<>> => screenshot_path # Missing
    /\ ChainCalls("upload") # <<>> => selected_text # Missing /\ Truthy(screenshot_path)
    /\ pc = "captured" =>
          /\ ChainCalls("screenshot") # <<>> /\ ChainCalls("text") # <<>>
          /\ snapshot["screenshot_path"] = Outcome("screenshot")
          /\ snapshot["selected_text"] = Outcome("text")
          /\ snapshot["image_url"] = Outcome("upload")
          /\ Truthy(snapshot["screenshot_path"]) <=> ChainCalls("upload") # <<>>
          /\ Truthy(snapshot["image_url"]) => Truthy(snapshot["screenshot_path"])

\* C10 witness: the screenshot chain failed entirely, so no upload ran, and
\* the text chain still delivered the clipboard text.
C10_Witness ==
    /\ pc = "captured"
    /\ snapshot["screenshot_path"] = PyNone
    /\ snapshot["image_url"] = PyNone
    /\ snapshot["selected_text"] = PyStr(<<"c">>)
    /\ ChainCalls("upload") = <<>>
    /\ Len(ChainCalls("screenshot")) = 4

\* the message list of a chat body (empty when the body has none)
MessagesOf(body) == Get(body, "messages", PyList(<<>>)).v

\* chat_completion was called with a conversation whose first message is text
FirstIsText ==
    /\ last.route = "chat"
    /\ last.relay_calls = 1
    /\ last.relay_messages # <<>>
    /\ IsStr(ContentOf(last.relay_messages[1]))

EndsWithExitPhrase(body) ==
    LET msgs == MessagesOf(body) IN
    /\ msgs # <<>>
    /\ IsStr(Get(msgs[Len(msgs)], "content", PyStr(<<>>)))
    /\ Strip(Lower(Get(msgs[Len(msgs)], "content", PyStr(<<>>)).v)) \in
          { <<"b","y","e">>, <<"e","x","i","t">>,
            <<"c","l","o","s","e">>, <<"q","u","i","t">> }

\* C5 (as claimed): a chat request with a list of messages either ends with
\* an exit phrase, and then termination is scheduled, the farewell is
\* returned with success and exit set and the relay is not called; or it
\* schedules nothing and is forwarded once, whole, with the snapshot's URL.
C5_ExitOrForward ==
    (last.route = "chat" /\ last.body.t = "dict" /\ last.body.messages # Missing) =>
        IF EndsWithExitPhrase(last.body)
        THEN /\ last.scheduled = 1
             /\ last.response.success = PyBool(TRUE)
             /\ last.response.exit = PyBool(TRUE)
             /\ Truthy(last.response.response)
             /\ last.relay_calls = 0
        ELSE /\ last.scheduled = 0
             /\ last.relay_calls = 1
             /\ last.relay_messages = MessagesOf(last.body)
             /\ last.relay_url = Get(context_data, "image_url", PyNone)

\* the endpoint has answered an exit phrase: farewell, exit set
ExitAnswered ==
    /\ last.route = "chat"
    /\ last.response.exit.t = "bool"
    /\ last.response.exit.v
    /\ last.response.response = PyStr(T_farewell)

\* a shutdown is under way: a thread sleeps or is about to kill, or SIGTERM is pending
ShutdownPending == threads.sleep + threads.kill > 0 \/ sigterm

\* C6: once the endpoint has answered an exit phrase the process terminates;
\* a shutdown under way stays under way until the process is gone, whatever
\* is served meanwhile; and the process ends by the signal handler's
\* sys.exit or by the fallback os._exit.
C6_ExitTerminates ==
    /\ ExitAnswered ~> (pc = "terminated")
    /\ [][(ShutdownPending /\ pc' # "terminated") => ShutdownPending']_vars
    /\ [][ExitAnswered' => (ShutdownPending' \/ pc' = "terminated")]_vars
    /\ [](pc = "terminated" => exit_kind \in {"sys.exit", "os._exit"})

\* C6 witness: the farewell was the last answer and the signal handler ended the process
C6_Witness ==
    /\ ExitAnswered
    /\ last.body = ChatBody(<<User(T_quit)>>)
    /\ pc = "terminated"
    /\ exit_kind = "sys.exit"

\* the request went out and the remote end failed: transport error or
\* timeout, a status other than 200, or a body that is not what is expected
RelayFailed ==
    /\ last.route = "chat"
    /\ last.sent
    /\ \/ last.remote.raises
       \/ last.remote.status_code # 200
       \/ ~last.remote.json_ok
       \/ (last.remote.has_choices /\ last.remote.choices # <<>>
              /\ ~last.remote.choices[1].well_formed)

\* C7: when the relay fails, chat_completion returns None, the endpoint
\* answers 200 with success false and a non-empty error, and the request
\* starts no thread, sends no signal and leaves the server serving.
C7_RelayFailureIsRecoverable ==
    /\ [](RelayFailed =>
            /\ last.result = PyNone
            /\ last.response.status = 200
            /\ last.response.success = PyBool(FALSE)
            /\ IsStr(last.response.error) /\ last.response.error.v # <<>>
            /\ last.scheduled = 0)
    /\ [][(RelayFailed' /\ last' # last) =>
             /\ pc = "serving" /\ pc' = "serving"
             /\ threads' = threads
             /\ sigterm' = sigterm]_vars

\* C7 witness: the remote end answered 500 and the server still serves
C7_Witness ==
    /\ RelayFailed
    /\ last.remote.status_code = 500
    /\ last.response.success = PyBool(FALSE)
    /\ pc = "serving"
    /\ threads = NoThreads

\* the remote end answered 200 with a well-formed body whose first choice holds a text
RemoteReplied ==
    /\ last.route = "chat"
    /\ last.sent
    /\ ~last.remote.raises
    /\ last.remote.status_code = 200
    /\ last.remote.json_ok
    /\ last.remote.has_choices
    /\ last.remote.choices # <<>>
    /\ last.remote.choices[1].well_formed
    /\ IsStr(last.remote.choices[1].content)

\* C8 (as claimed): whenever the remote end replies with a text, that text
\* is the relay's result and the endpoint answers success with that text,
\* for every text, the empty one included.
C8_ReplyIsReturned ==
    RemoteReplied =>
        /\ last.result = last.remote.choices[1].content
        /\ last.response.status = 200
        /\ last.response.success = PyBool(TRUE)
        /\ last.response.response = last.remote.choices[1].content

\* how a snapshot value reads in the page: a text as it is, None as the text None
Shown(x) == IF IsStr(x) THEN x.v ELSE <<"N","o","n","e">>

\* C9: the values posted last to /api/context are the values of the live
\* snapshot; a page rendered after them carries exactly these values (the
\* box too, whenever the value is not empty); and a chat request forwarded
\* after them passes exactly the posted image_url to the relay.
C9_ContextRoundTrip ==
    /\ \A k \in Keys : merged[k] # Missing => context_data[k] = merged[k]
    /\ last.route = "index" =>
          /\ merged["selected_text"] # Missing =>
                /\ last.page.js_selectedText = Shown(merged["selected_text"])
                /\ Truthy(merged["selected_text"]) =>
                      last.page.box_selected_text = merged["selected_text"].v
          /\ merged["image_url"] # Missing =>
                /\ last.page.js_screenshotUrl = Shown(merged["image_url"])
                /\ Truthy(merged["image_url"]) =>
                      last.page.box_screenshot = merged["image_url"].v
    /\ (last.route = "chat" /\ last.relay_calls = 1 /\ merged["image_url"] # Missing) =>
          last.relay_url = merged["image_url"]

\* C9 witness: text and URL were posted, and the page rendered next shows both
C9_Witness ==
    /\ last.route = "index"
    /\ merged["selected_text"] = PyStr(T_hi)
    /\ merged["image_url"] = PyStr(UrlPosted)
    /\ last.page.js_selectedText = T_hi
    /\ last.page.box_screenshot = UrlPosted
    /\ session_file.valid

\* C11 (as claimed): a context update answers success false only when the
\* write of the session store raised; every other body, the null and the
\* non-object ones included, is answered with success true.
C11_ContextFailsOnlyOnWrite ==
    (last.route = "context" /\ last.response.success = PyBool(FALSE)) =>
        last.save \in {"open_fails", "write_fails"}

\* the last request was a context update whose write of the session store raised
WriteFailed ==
    /\ last.route = "context"
    /\ last.save \in {"open_fails", "write_fails"}

\* C12: when the write of the session store fails during a context update,
\* the answer is success false with the error's text, the snapshot holds
\* the posted fields merged as after a successful write, and the request
\* starts no thread, sends no signal and leaves the server serving.
C12_WriteFailureKeepsMerge ==
    /\ [](WriteFailed =>
            /\ last.response.status = 200
            /\ last.response.success = PyBool(FALSE)
            /\ IsStr(last.response.error) /\ last.response.error.v # <<>>
            /\ \A k \in Keys :
                  last.body.d[k] # Missing => context_data[k] = last.body.d[k])
    /\ [][(WriteFailed' /\ last' # last) =>
             /\ \A k \in Keys :
                   context_data'[k] = IF last'.body.d[k] # Missing
                                      THEN last'.body.d[k] ELSE context_data[k]
             /\ pc = "serving" /\ pc' = "serving"
             /\ threads' = threads
             /\ sigterm' = sigterm]_vars

\* C12 witness: text and URL were posted, the write failed half-way, and the
\* snapshot holds both
C12_Witness ==
    /\ WriteFailed
    /\ last.save = "write_fails"
    /\ last.body = Posted(PyStr(T_hi), PyStr(UrlPosted))
    /\ context_data["selected_text"] = PyStr(T_hi)
    /\ context_data["image_url"] = PyStr(UrlPosted)
    /\ ~session_file.valid
    /\ pc = "serving"

\* the shutdown actions scheduled in this process so far: the threads that
\* sleep or are about to send the signal, and the signal a finished thread
\* has sent (the process ends as soon as that signal is handled)
ShutdownsScheduled ==
    threads.sleep + threads.kill + (IF sigterm THEN 1 ELSE 0)

\* C13 (as claimed): however many exit requests arrive, also within the
\* grace delay, at most one deferred shutdown action is scheduled and at
\* most one termination signal is sent in the life of the process.
C13_ShutdownOneShot ==
    ShutdownsScheduled <= 1

\* C18 (as claimed): once an exit message has been observed the shutdown
\* stays under way until the process is gone, and no chat request served
\* meanwhile is forwarded to the relay.
C18_NoForwardWhileShuttingDown ==
    /\ [][(ShutdownPending /\ pc' # "terminated") => ShutdownPending']_vars
    /\ [][(ShutdownPending /\ last' # last /\ last'.route = "chat") =>
             last'.relay_calls = 0]_vars

\* C16: whatever the body of a chat request, the answer has status 200 and
\* a boolean success; when success is false it carries an error text and
\* the request has scheduled no termination.
C16_ChatNeverRaises ==
    last.route = "chat" =>
        /\ last.response.status = 200
        /\ last.response.success.t = "bool"
        /\ ~last.response.success.v =>
              /\ IsStr(last.response.error)
              /\ last.scheduled = 0

\* C16 witness: a last message with structured content is answered with the
\* text of the error and schedules nothing
C16_Witness ==
    /\ last.route = "chat"
    /\ last.body = ChatBody(<<User(T_intro), Structured>>)
    /\ last.response.status = 200
    /\ last.response.success = PyBool(FALSE)
    /\ last.response.error = PyStr(E_list_lower)
    /\ last.scheduled = 0

\* this step is a context update whose save succeeded
SavedNow ==
    /\ last'.route = "context"
    /\ last'.save = "ok"
    /\ <<last, session_file, context_data>>' # <<last, session_file, context_data>>

\* C17 (as claimed): load_session gives None while nothing was saved; a
\* successful save makes it give exactly the record saved, whose context
\* is the live snapshot and whose message log is empty, and it goes on
\* giving that record until the next successful save, whatever else is
\* served; chat and page requests never write the session file.
C17_StoreRoundTrip ==
    /\ [](~session_file.exists =>
            load_session(session_file) = Loaded(FALSE, FALSE, SessionData(EmptyDict)))
    /\ []((last.route = "context" /\ last.save = "ok") =>
            load_session(session_file) =
                Loaded(FALSE, TRUE, [timestamp |-> PyTime, context |-> context_data,
                                     messages |-> <<>>]))
    /\ [][IF SavedNow
          THEN load_session(session_file') =
                   Loaded(FALSE, TRUE, [timestamp |-> PyTime, context |-> context_data',
                                        messages |-> <<>>])
          ELSE load_session(session_file') = load_session(session_file)]_vars
    /\ [][(last' # last /\ last'.route \in {"chat", "index"}) =>
             session_file' = session_file]_vars

\* the handlers of the round that have answered and whose body posted key k
Posters(k) ==
    { i \in Slots : /\ handlers[i].route = "context"
                    /\ handlers[i].at = "done"
                    /\ handlers[i].body.t = "dict"
                    /\ handlers[i].body.d[k] # Missing }

\* the place of slot i among the writers of the round
WriterRank(i) == CHOOSE n \in 1..Len(writers) : writers[n] = i

\* of the handlers that posted key k, the one that wrote last
LastPoster(k) ==
    CHOOSE i \in Posters(k) : \A j \in Posters(k) : WriterRank(j) <= WriterRank(i)

\* this step has served a chat or a page request
ChatOrPageServed == last' # last /\ last'.route \in {"chat", "index"}

\* this step is the update of a context handler
ContextWrites ==
    \E i \in Slots : /\ handlers[i].route = "context"
                     /\ handlers[i].at = "update"
                     /\ handlers'[i].at = "save"

\* C15: when the context updates that run side by side have all answered,
\* the snapshot holds every key any of them posted, with the value of the
\* one among its posters that wrote last; chat and page requests leave the
\* snapshot as it is, and nothing but a context update changes it.
C15_LastWriterWins ==
    /\ [](Quiet => \A k \in Keys :
              Posters(k) # {} =>
                  context_data[k] = handlers[LastPoster(k)].body.d[k])
    /\ [][ChatOrPageServed => context_data' = context_data]_vars
    /\ [][context_data' # context_data => ContextWrites]_vars

\* C15 witness: two updates ran side by side, both posted selected_text, the
\* handler of slot 2 wrote first and answered last, and the snapshot holds
\* the text of slot 1 and the URL only slot 1 posted
C15_Witness ==
    /\ Quiet
    /\ handlers[1] = Handler("context", "done", Posted(PyStr(T_hi), PyStr(UrlPosted)))
    /\ handlers[2] = Handler("context", "done", Posted(PyStr(T_reply), Missing))
    /\ writers = <<2, 1>>
    /\ last.route = "context" /\ last.body = handlers[2].body
    /\ context_data["selected_text"] = PyStr(T_hi)
    /\ context_data["image_url"] = PyStr(UrlPosted)

\* a handler has started the shutdown thread and has not yet returned its farewell
FarewellUnsent ==
    \E i \in Slots : handlers[i].route = "chat" /\ handlers[i].at = "respond"

\* C14 (as claimed): however the handler of an exit request and the shutdown
\* thread it started are interleaved, the farewell has been sent when the
\* process terminates.
C14_FarewellBeforeExit ==
    pc = "terminated" => ~FarewellUnsent

====
